---------------------------- MODULE Spec2Model ----------------------------
(***************************************************************************)
(* Model of map-maker.py: the record parsers (parse_timestamp,             *)
(* extract_coordinates), the haversine distance and the trajectory         *)
(* pipeline process_data followed by the empty check of create_map.        *)
(*                                                                         *)
(* Representation of Python values:                                        *)
(*   str            a sequence of one-character strings                    *)
(*   float('nan')   NaN in a column of str cells (the cell read_csv        *)
(*                  produces for an empty field); None in a float column   *)
(*   None, NaT      the empty sequence                                     *)
(*   float          v in the columns coords and distance_km, <<v>> in the  *)
(*                  columns that can hold NaN                              *)
(*   datetime       <<year, month, day, hour, minute, second, microsecond>>*)
(*   [lat, lon]     <<lat, lon>>, decimal degrees in units of 10^-4 degree *)
(*   distance_km    an integer number of metres                            *)
(***************************************************************************)
EXTENDS Integers, Sequences, FiniteSets, TLC

None == <<>>
NaN == <<"nan">>

\* Outcomes that are exceptions.
ValueError == <<"ValueError">>

TypeError == <<"TypeError">>

IsStr(v) == v # NaN

(***************************************************************************)
(* Characters.                                                             *)
(***************************************************************************)
DigitChars == <<"0", "1", "2", "3", "4", "5", "6", "7", "8", "9">>

UpperChars == <<"A", "B", "C", "D", "E", "F", "G", "H", "I", "J", "K", "L", "M",
                "N", "O", "P", "Q", "R", "S", "T", "U", "V", "W", "X", "Y", "Z">>

LowerChars == <<"a", "b", "c", "d", "e", "f", "g", "h", "i", "j", "k", "l", "m",
                "n", "o", "p", "q", "r", "s", "t", "u", "v", "w", "x", "y", "z">>

IsDigit(c) == \E k \in 1..10 : DigitChars[k] = c

DigitVal(c) == (CHOOSE k \in 1..10 : DigitChars[k] = c) - 1

IsSpace(c) == c \in {" ", "\t"}

ToLower(c) ==
    IF \E k \in 1..26 : UpperChars[k] = c
    THEN LowerChars[CHOOSE k \in 1..26 : UpperChars[k] = c]
    ELSE c

\* The character at 1-based position i, "" past the end of the string.
At(s, i) == IF i >= 1 /\ i <= Len(s) THEN s[i] ELSE ""

\* int() of the digits s[i], ..., s[j-1].
RECURSIVE Num(_, _, _)
Num(s, i, j) == IF j <= i THEN 0 ELSE Num(s, i, j - 1) * 10 + DigitVal(s[j - 1])

\* \s* : the first position >= i that holds no whitespace.
RECURSIVE SkipSpace(_, _)
SkipSpace(s, i) == IF IsSpace(At(s, i)) THEN SkipSpace(s, i + 1) ELSE i

\* The number of consecutive digits from position i on, at most max.
RECURSIVE DigitRun(_, _, _)
DigitRun(s, i, max) ==
    IF max > 0 /\ IsDigit(At(s, i)) THEN 1 + DigitRun(s, i + 1, max - 1) ELSE 0

(***************************************************************************)
(* datetime.strptime(timestamp_str, '%b %d, %Y @ %H:%M:%S.%f').            *)
(* The format compiles to the regular expression (IGNORECASE)              *)
(*   (jan|...|dec)\s+(3[0-1]|[1-2]\d|0[1-9]|[1-9]| [1-9]),\s+(\d\d\d\d)    *)
(*   \s+@\s+(2[0-3]|[0-1]\d|\d):([0-5]\d|\d):(6[0-1]|[0-5]\d|\d)\.         *)
(*   ([0-9]{1,6})                                                          *)
(* matched at the start of the string; the whole string must be consumed.  *)
(* Each directive is a function from a position to <<value, next>>, or     *)
(* None when it does not match. Every numeric directive is followed by a   *)
(* literal that is no digit, so the first alternative that matches is the  *)
(* only one that can lead to a match; \s+ before %d subsumes ' [1-9]'.     *)
(***************************************************************************)
MonthNames == << <<"j", "a", "n">>, <<"f", "e", "b">>, <<"m", "a", "r">>,
                 <<"a", "p", "r">>, <<"m", "a", "y">>, <<"j", "u", "n">>,
                 <<"j", "u", "l">>, <<"a", "u", "g">>, <<"s", "e", "p">>,
                 <<"o", "c", "t">>, <<"n", "o", "v">>, <<"d", "e", "c">> >>

\* %b
re_b(s, i) ==
    LET w == <<ToLower(At(s, i)), ToLower(At(s, i + 1)), ToLower(At(s, i + 2))>>
    IN  IF \E m \in 1..12 : MonthNames[m] = w
        THEN <<CHOOSE m \in 1..12 : MonthNames[m] = w, i + 3>>
        ELSE None

\* \s+
re_ws(s, i) == IF SkipSpace(s, i) > i THEN <<0, SkipSpace(s, i)>> ELSE None

\* a literal character of the format
re_lit(s, i, c) == IF At(s, i) = c THEN <<0, i + 1>> ELSE None

\* %d
re_d(s, i) ==
    LET c1 == At(s, i)
        c2 == At(s, i + 1)
    IN  IF \/ c1 = "3" /\ c2 \in {"0", "1"}
           \/ c1 \in {"1", "2"} /\ IsDigit(c2)
           \/ c1 = "0" /\ IsDigit(c2) /\ c2 # "0"
        THEN <<Num(s, i, i + 2), i + 2>>
        ELSE IF IsDigit(c1) /\ c1 # "0" THEN <<Num(s, i, i + 1), i + 1>>
        ELSE None

\* %Y
re_Y(s, i) == IF DigitRun(s, i, 4) = 4 THEN <<Num(s, i, i + 4), i + 4>> ELSE None

\* %H
re_H(s, i) ==
    LET c1 == At(s, i)
        c2 == At(s, i + 1)
    IN  IF \/ c1 = "2" /\ c2 \in {"0", "1", "2", "3"}
           \/ c1 \in {"0", "1"} /\ IsDigit(c2)
        THEN <<Num(s, i, i + 2), i + 2>>
        ELSE IF IsDigit(c1) THEN <<Num(s, i, i + 1), i + 1>>
        ELSE None

\* %M
re_M(s, i) ==
    LET c1 == At(s, i)
        c2 == At(s, i + 1)
    IN  IF c1 \in {"0", "1", "2", "3", "4", "5"} /\ IsDigit(c2)
        THEN <<Num(s, i, i + 2), i + 2>>
        ELSE IF IsDigit(c1) THEN <<Num(s, i, i + 1), i + 1>>
        ELSE None

\* %S
re_S(s, i) ==
    LET c1 == At(s, i)
        c2 == At(s, i + 1)
    IN  IF \/ c1 = "6" /\ c2 \in {"0", "1"}
           \/ c1 \in {"0", "1", "2", "3", "4", "5"} /\ IsDigit(c2)
        THEN <<Num(s, i, i + 2), i + 2>>
        ELSE IF IsDigit(c1) THEN <<Num(s, i, i + 1), i + 1>>
        ELSE None

\* 10^k
RECURSIVE Pow10(_)
Pow10(k) == IF k = 0 THEN 1 ELSE 10 * Pow10(k - 1)

\* re_f with a fractional part that may be missing: [0-9]{0,6}.
re_f_optional(s, i) ==
    LET n == DigitRun(s, i, 6)
    IN  <<Num(s, i, i + n) * Pow10(6 - n), i + n>>

\* %f : one to six digits, greedy, right-padded with zeros to microseconds.
re_f(s, i) ==
    LET n == DigitRun(s, i, 6)
    IN  IF n >= 1 THEN <<Num(s, i, i + n) * Pow10(6 - n), i + n>> ELSE None

IsLeap(y) == y % 4 = 0 /\ (y % 100 # 0 \/ y % 400 = 0)

DaysInMonth(y, m) ==
    IF m = 2 THEN (IF IsLeap(y) THEN 29 ELSE 28)
    ELSE IF m \in {4, 6, 9, 11} THEN 30 ELSE 31

\* The directives and literals of the format, in order.
TimestampFormat == <<"b", "ws", "d", ",", "ws", "Y", "ws", "@", "ws",
                     "H", ":", "M", ":", "S", ".", "f">>

Directive(s, i, tok) ==
    CASE tok = "b" -> re_b(s, i)
      [] tok = "ws" -> re_ws(s, i)
      [] tok = "d" -> re_d(s, i)
      [] tok = "Y" -> re_Y(s, i)
      [] tok = "H" -> re_H(s, i)
      [] tok = "M" -> re_M(s, i)
      [] tok = "S" -> re_S(s, i)
      [] tok = "f" -> re_f(s, i)
      [] OTHER -> re_lit(s, i, tok)

\* format_regex.match(data_string): <<values found so far, next position>>
\* after the first k tokens of the format, None when the match fails.
RECURSIVE MatchFormat(_, _)
MatchFormat(s, k) ==
    IF k = 0 THEN <<<<>>, 1>>
    ELSE LET prev == MatchFormat(s, k - 1)
         IN  IF prev = None THEN None
             ELSE LET r == Directive(s, prev[2], TimestampFormat[k])
                  IN  IF r = None THEN None
                      ELSE <<Append(prev[1], r[1]), r[2]>>

\* The outcome of strptime on a str: the datetime, or ValueError.
strptime(s) ==
    LET found == MatchFormat(s, Len(TimestampFormat))
    IN  IF found = None THEN ValueError                 \* does not match format
        ELSE IF found[2] # Len(s) + 1 THEN ValueError   \* unconverted data remains
        ELSE LET v == found[1]
                 month == v[1]
                 day == v[3]
                 year == v[6]
                 hour == v[10]
                 minute == v[12]
                 second == v[14]
                 fraction == v[16]
             IN  IF \/ year < 1
                    \/ day > DaysInMonth(year, month)
                    \/ second > 59
                 THEN ValueError                        \* datetime() range checks
                 ELSE <<year, month, day, hour, minute, second, fraction>>

\* parse_timestamp: the datetime, None after a ValueError, and TypeError
\* when strptime is handed a value that is no str (only ValueError is caught).
parse_timestamp(timestamp_str) ==
    IF ~IsStr(timestamp_str) THEN TypeError
    ELSE IF strptime(timestamp_str) = ValueError THEN None
    ELSE strptime(timestamp_str)

(***************************************************************************)
(* extract_coordinates: re.match of                                        *)
(*   POINT\s*\(\s*([-\d.]+)\s+([-\d.]+)\s*\)                               *)
(* at the start of the string (nothing anchors the end), then float() of   *)
(* the two groups. A group and the whitespace around it share no           *)
(* character, so each group is the longest run of [-\d.] characters.       *)
(***************************************************************************)
PointLiteral == <<"P", "O", "I", "N", "T">>

IsNumChar(c) == IsDigit(c) \/ c \in {"-", "."}

\* The first position >= i that holds no character of [-\d.].
RECURSIVE SkipNum(_, _)
SkipNum(s, i) == IF IsNumChar(At(s, i)) THEN SkipNum(s, i + 1) ELSE i

\* re.match(...): <<group 1, group 2>>, None when the pattern does not match.
re_match_point(s) ==
    LET p1 == SkipSpace(s, Len(PointLiteral) + 1)         \* POINT\s*
        p2 == SkipSpace(s, p1 + 1)                        \* \(\s*
        p3 == SkipNum(s, p2)                              \* ([-\d.]+)
        p4 == SkipSpace(s, p3)                            \* \s+
        p5 == SkipNum(s, p4)                              \* ([-\d.]+)
        p6 == SkipSpace(s, p5)                            \* \s*
    IN  IF /\ Len(s) >= Len(PointLiteral)
           /\ SubSeq(s, 1, Len(PointLiteral)) = PointLiteral
           /\ At(s, p1) = "("
           /\ p3 > p2
           /\ p4 > p3
           /\ p5 > p4
           /\ At(s, p6) = ")"
        THEN <<SubSeq(s, p2, p3 - 1), SubSeq(s, p4, p5 - 1)>>
        ELSE None

\* The number of "." characters of a token.
RECURSIVE CountDots(_)
CountDots(t) ==
    IF t = <<>> THEN 0
    ELSE (IF Head(t) = "." THEN 1 ELSE 0) + CountDots(Tail(t))

\* The position of the first "." of a token, Len(t) + 1 when it has none.
RECURSIVE DotPos(_, _)
DotPos(t, i) == IF i > Len(t) \/ t[i] = "." THEN i ELSE DotPos(t, i + 1)

\* Decimal places kept by the fixed-point representation of a float.
CoordDecimals == 4

\* float(t) raises ValueError for a token over [-\d.] that is no decimal
\* number: a "-" after the first character, two dots, or no digit at all.
float_raises(t) ==
    LET u == IF At(t, 1) = "-" THEN Tail(t) ELSE t
    IN  \/ \E i \in 1..Len(u) : u[i] = "-"
        \/ CountDots(u) > 1
        \/ Len(u) - CountDots(u) = 0

\* float(t) for a decimal number t: the value in units of 10^-CoordDecimals
\* (further decimals are cut off).
float(t) ==
    LET neg == At(t, 1) = "-"
        u == IF neg THEN Tail(t) ELSE t
        dot == DotPos(u, 1)
        nfrac == IF dot > Len(u) THEN 0 ELSE Len(u) - dot
        kept == IF nfrac > CoordDecimals THEN CoordDecimals ELSE nfrac
        mag == Num(u, 1, dot) * Pow10(CoordDecimals)
               + Num(u, dot + 1, dot + 1 + kept) * Pow10(CoordDecimals - kept)
    IN  IF neg THEN 0 - mag ELSE mag

\* extract_coordinates that keeps the order of the string: [lon, lat].
extract_coordinates_lon_lat(position_str) ==
    IF ~IsStr(position_str) THEN None
    ELSE LET match == re_match_point(position_str)
         IN  IF match = None THEN None
             ELSE IF float_raises(match[1]) \/ float_raises(match[2]) THEN None
             ELSE LET lon == float(match[1])
                      lat == float(match[2])
                  IN  <<lon, lat>>

\* extract_coordinates: [lat, lon], None on any exception (a value that is
\* no str makes re.match raise TypeError, which is caught as well).
extract_coordinates(position_str) ==
    IF ~IsStr(position_str) THEN None
    ELSE LET match == re_match_point(position_str)
         IN  IF match = None THEN None
             ELSE IF float_raises(match[1]) \/ float_raises(match[2]) THEN None
             ELSE LET lon == float(match[1])
                      lat == float(match[2])
                  IN  <<lat, lon>>

(***************************************************************************)
(* haversine. The central angle c = 2 * atan2(sqrt(a), sqrt(1 - a)) is     *)
(* tabulated, in units of 10^-7 rad, from the formula of the source for    *)
(* the coordinates that occur in the rows of RowPool; the distance R * c   *)
(* is carried in metres.                                                   *)
(***************************************************************************)
R == 6371

\* <<lat1, lon1, lat2, lon2, c>>
CentralAngleTable == {
    <<377749, -1224194, 377749, -1224194, 0>>,
    <<377749, -1224194, 377861, -1223065, 15696>>,
    <<377749, -1224194, 377749, -1223194, 13795>>,
    <<377861, -1223065, 377749, -1224194, 15696>>,
    <<377861, -1223065, 377861, -1223065, 0>>,
    <<377861, -1223065, 377749, -1223194, 2643>>,
    <<377749, -1223194, 377749, -1224194, 13795>>,
    <<377749, -1223194, 377861, -1223065, 2643>>,
    <<377749, -1223194, 377749, -1223194, 0>> }

CentralAngle(lat1, lon1, lat2, lon2) ==
    (CHOOSE e \in CentralAngleTable :
        e[1] = lat1 /\ e[2] = lon1 /\ e[3] = lat2 /\ e[4] = lon2)[5]

haversine(lat1, lon1, lat2, lon2) ==
    LET c == CentralAngle(lat1, lon1, lat2, lon2)
    IN  (R * c + 5000) \div 10000

(***************************************************************************)
(* The input: the table read_csv hands to process_data. A cell of the      *)
(* columns timestamp and position is a str or, for an empty field, NaN.    *)
(***************************************************************************)
\* "Jun 28, 2024 @ 13:59:38.831"
TsA ==
    <<"J", "u", "n", " ", "2", "8", ",", " ", "2", "0", "2", "4", " ",
      "@", " ", "1", "3", ":", "5", "9", ":", "3", "8", ".", "8", "3",
      "1">>

\* "Jun 28, 2024 @ 14:59:38.831"
TsB ==
    <<"J", "u", "n", " ", "2", "8", ",", " ", "2", "0", "2", "4", " ",
      "@", " ", "1", "4", ":", "5", "9", ":", "3", "8", ".", "8", "3",
      "1">>

\* "Jun 28, 2024 @ 14:29:38.831"
TsC ==
    <<"J", "u", "n", " ", "2", "8", ",", " ", "2", "0", "2", "4", " ",
      "@", " ", "1", "4", ":", "2", "9", ":", "3", "8", ".", "8", "3",
      "1">>

\* "2024-06-28 13:59:38"
TsBad ==
    <<"2", "0", "2", "4", "-", "0", "6", "-", "2", "8", " ", "1", "3",
      ":", "5", "9", ":", "3", "8">>

\* "POINT (-122.4194 37.7749)"
PosA ==
    <<"P", "O", "I", "N", "T", " ", "(", "-", "1", "2", "2", ".", "4",
      "1", "9", "4", " ", "3", "7", ".", "7", "7", "4", "9", ")">>

\* "POINT (-122.3065 37.7861)"
PosB ==
    <<"P", "O", "I", "N", "T", " ", "(", "-", "1", "2", "2", ".", "3",
      "0", "6", "5", " ", "3", "7", ".", "7", "8", "6", "1", ")">>

\* "POINT (-122.3194 37.7749)"
PosC ==
    <<"P", "O", "I", "N", "T", " ", "(", "-", "1", "2", "2", ".", "3",
      "1", "9", "4", " ", "3", "7", ".", "7", "7", "4", "9", ")">>

\* "POINT (1,2)"
PosBad ==
    <<"P", "O", "I", "N", "T", " ", "(", "1", ",", "2", ")">>

Row(ts, pos, cc, rid) ==
    [timestamp |-> ts, position |-> pos, country_code |-> cc, route_id |-> rid]

\* Rows a table is made of: three places, three instants (two rows share
\* one instant), and rows whose timestamp or position is malformed or empty.
RowPool == {
    Row(TsA, PosA, "US", "r1"),
    Row(TsB, PosB, "US", "r1"),
    Row(TsA, PosC, "US", "r2"),
    Row(TsC, PosB, "US", "r2"),
    Row(TsBad, PosA, "US", "r1"),
    Row(TsA, PosBad, "US", "r1"),
    Row(NaN, PosA, "US", "r1"),
    Row(TsB, NaN, "US", "r2") }

\* The largest number of rows of an input table.
MaxRows == 3

Tables == UNION {[1..n -> RowPool] : n \in 0..MaxRows}

(***************************************************************************)
(* pandas operations used by process_data.                                 *)
(***************************************************************************)
\* df[col] = values
SetColumn(df, col, values) ==
    [k \in 1..Len(df) |-> [c \in (DOMAIN df[k]) \cup {col} |->
                               IF c = col THEN values[k] ELSE df[k][c]]]

\* RangeIndex: the row at position k carries index label k - 1.
WithIndex(rows) == SetColumn(rows, "index", [k \in 1..Len(rows) |-> k - 1])

\* df.dropna(subset=[col]): None, NaN and NaT are the null values.
dropna(df, col) == SelectSeq(df, LAMBDA r : r[col] # None)

\* datetime comparison: lexicographic on the fields.
RECURSIVE dt_lt(_, _)
dt_lt(a, b) ==
    /\ a # <<>>
    /\ \/ Head(a) < Head(b)
       \/ Head(a) = Head(b) /\ dt_lt(Tail(a), Tail(b))

\* The permutations of 1..n.
Perms(n) == {p \in [1..n -> 1..n] : \A i, j \in 1..n : p[i] = p[j] => i = j}

\* df.sort_values(col) with the default kind='quicksort', which is not a
\* stable sort: every arrangement with non-decreasing keys is a possible
\* result.
sort_values(df, col) ==
    {[k \in 1..Len(df) |-> df[p[k]]] : p \in
        {q \in Perms(Len(df)) :
            \A k \in 1..Len(df) - 1 : ~dt_lt(df[q[k + 1]][col], df[q[k]][col])}}

\* sort_values without reset_index: the rows keep their index labels.
reset_index_missing(df) == df

\* df.reset_index(drop=True)
reset_index(df) == WithIndex(df)

\* series.shift(2): the value of the row before the previous row.
shift_two(df, col, k) == IF k <= 2 THEN None ELSE df[k - 2][col]

\* series.shift(1): the value of the previous row, null for the first row.
shift(df, col, k) == IF k = 1 THEN None ELSE df[k - 1][col]

(***************************************************************************)
(* Timestamp.__sub__ and .dt.total_seconds(): the elapsed time, carried in *)
(* milliseconds (the instants of RowPool have millisecond precision).      *)
(***************************************************************************)
DaysBeforeYear(y) ==
    (y - 1) * 365 + ((y - 1) \div 4) - ((y - 1) \div 100) + ((y - 1) \div 400)

RECURSIVE DaysBeforeMonth(_, _)
DaysBeforeMonth(y, m) ==
    IF m = 1 THEN 0 ELSE DaysBeforeMonth(y, m - 1) + DaysInMonth(y, m - 1)

toordinal(dt) == DaysBeforeYear(dt[1]) + DaysBeforeMonth(dt[1], dt[2]) + dt[3]

total_seconds(a, b) ==
    (toordinal(a) - toordinal(b)) * 86400000
    + ((a[4] - b[4]) * 3600 + (a[5] - b[5]) * 60 + (a[6] - b[6])) * 1000
    + ((a[7] - b[7]) \div 1000)

(***************************************************************************)
(* f"{speed:.2f} km/h" for speed = distance_km / time_diff_hours, from the *)
(* distance in metres and the elapsed milliseconds: the quotient           *)
(* 3600 * m / ms in km/h, rounded half-to-even to two decimals.            *)
(***************************************************************************)
RECURSIVE str_int(_)
str_int(n) ==
    IF n < 10 THEN <<DigitChars[n + 1]>>
    ELSE Append(str_int(n \div 10), DigitChars[(n % 10) + 1])

\* distance_km / time_diff_hours in hundredths of km/h.
speed_hundredths(m, ms) ==
    LET whole == (m * 3600) \div ms
        r1 == (m * 3600) % ms
        frac == (r1 * 100) \div ms
        r2 == (r1 * 100) % ms
        h == whole * 100 + frac
    IN  IF 2 * r2 > ms \/ (2 * r2 = ms /\ h % 2 = 1) THEN h + 1 ELSE h

format_speed(h) ==
    str_int(h \div 100) \o <<".">> \o <<DigitChars[((h % 100) \div 10) + 1]>>
    \o <<DigitChars[(h % 10) + 1]>> \o <<" ", "k", "m", "/", "h">>

NotApplicable == <<"N", "/", "A">>

\* calculate_distance(row); the columns prev_lat and prev_lon hold <<v>>
\* for a number v and None for NaN.
calculate_distance(row) ==
    IF row.prev_lat = None \/ row.prev_lon = None
    THEN 0
    ELSE haversine(row.prev_lat[1], row.prev_lon[1], row.coords[1], row.coords[2])

\* calculate_avg_speed without the test for the first point.
calculate_avg_speed_no_first(row) ==
    IF row.time_diff_hours # None /\ row.time_diff_hours[1] <= 0
    THEN NotApplicable
    ELSE IF row.time_diff_hours = None
    THEN <<"n", "a", "n", " ", "k", "m", "/", "h">>
    ELSE format_speed(speed_hundredths(row.distance_km, row.time_diff_hours[1]))

\* calculate_avg_speed(row); time_diff_hours holds <<ms>> or None for NaN.
\* A comparison with NaN is false, and NaN formats as "nan km/h".
calculate_avg_speed(row) ==
    IF row.sequence = 1 THEN NotApplicable
    ELSE IF row.time_diff_hours # None /\ row.time_diff_hours[1] <= 0
    THEN NotApplicable
    ELSE IF row.time_diff_hours = None
    THEN <<"n", "a", "n", " ", "k", "m", "/", "h">>
    ELSE format_speed(speed_hundredths(row.distance_km, row.time_diff_hours[1]))

(***************************************************************************)
(* main(): process_data(df, remove_duplicates) line by line, then          *)
(* create_map. An exception that nothing catches ends the run.             *)
(***************************************************************************)
VARIABLES
    csv,                \* the table read_csv returned
    remove_duplicates,  \* args.remove_duplicates
    df,                 \* the local df of process_data
    ts_dtype,           \* dtype of the column parsed_timestamp
    pc,                 \* the statement to execute next
    exc,                \* <<exception, raised in>> once an exception escaped
    rendered,           \* what create_map did
    call                \* <<function, argument, result>> of a parser call

vars == <<csv, remove_duplicates, df, ts_dtype, pc, exc, rendered, call>>

Init ==
    /\ csv \in Tables
    /\ remove_duplicates \in BOOLEAN
    /\ df = WithIndex(csv)
    /\ ts_dtype = "none"
    /\ pc = "parse_timestamps"
    /\ exc = None
    /\ rendered = "nothing"
    /\ call = None

Raise(type, where) ==
    /\ pc' = "raised"
    /\ exc' = <<type, where>>
    /\ UNCHANGED <<csv, remove_duplicates, df, ts_dtype, rendered, call>>

\* Series.apply + Series construction: the dtype of the column of results.
\* At least one datetime makes it datetime64 (None becomes NaT); a column
\* of None only, or an empty one, stays object.
infer_dtype(values) ==
    IF \E k \in 1..Len(values) : values[k] # None THEN "datetime64" ELSE "object"

\* lines 81-82
ParseTimestamps ==
    /\ pc = "parse_timestamps"
    /\ IF \E k \in 1..Len(df) : parse_timestamp(df[k].timestamp) = TypeError
       THEN Raise("TypeError", "parse_timestamp")
       ELSE LET parsed == [k \in 1..Len(df) |-> parse_timestamp(df[k].timestamp)]
            IN  /\ df' = dropna(SetColumn(df, "parsed_timestamp", parsed),
                                "parsed_timestamp")
                /\ ts_dtype' = infer_dtype(parsed)
                /\ pc' = "extract_coordinates"
                /\ UNCHANGED <<csv, remove_duplicates, exc, rendered, call>>

\* lines 85-86
ExtractCoordinates ==
    /\ pc = "extract_coordinates"
    /\ LET coords == [k \in 1..Len(df) |-> extract_coordinates(df[k].position)]
       IN  df' = dropna(SetColumn(df, "coords", coords), "coords")
    /\ pc' = "drop_duplicates"
    /\ UNCHANGED <<csv, remove_duplicates, ts_dtype, exc, rendered, call>>

\* The cells of a row without its index label.
Cells(row) == [c \in (DOMAIN row) \ {"index"} |-> row[c]]

\* df.drop_duplicates(): the first occurrence of every row is kept.
drop_duplicates(d) ==
    LET keep == {k \in 1..Len(d) : \A j \in 1..(k - 1) : Cells(d[j]) # Cells(d[k])}
        F[k \in 0..Len(d)] ==
            IF k = 0 THEN <<>>
            ELSE IF k \in keep THEN Append(F[k - 1], d[k]) ELSE F[k - 1]
    IN  F[Len(d)]

\* lines 88-89. DataFrame.duplicated returns at once for an empty frame;
\* otherwise it hashes the cells of every column, and the cells of coords
\* are lists: TypeError: unhashable type: 'list'.
DropDuplicates ==
    /\ pc = "drop_duplicates"
    /\ IF remove_duplicates /\ df # <<>>
       THEN Raise("TypeError", "drop_duplicates")
       ELSE /\ df' = IF remove_duplicates THEN drop_duplicates(df) ELSE df
            /\ pc' = "sort_values"
            /\ UNCHANGED <<csv, remove_duplicates, ts_dtype, exc, rendered, call>>

\* line 92
SortValues ==
    /\ pc = "sort_values"
    /\ \E sorted \in sort_values(df, "parsed_timestamp") :
           df' = reset_index(sorted)
    /\ pc' = "sequence"
    /\ UNCHANGED <<csv, remove_duplicates, ts_dtype, exc, rendered, call>>

\* line 95
AssignSequence ==
    /\ pc = "sequence"
    /\ df' = SetColumn(df, "sequence", [k \in 1..Len(df) |-> df[k].index + 1])
    /\ pc' = "shift"
    /\ UNCHANGED <<csv, remove_duplicates, ts_dtype, exc, rendered, call>>

\* lines 99-103
ShiftPrevious ==
    /\ pc = "shift"
    /\ LET box(c, i) == IF c = None THEN None ELSE <<c[i]>>
           lat == [k \in 1..Len(df) |-> box(shift(df, "coords", k), 1)]
           lon == [k \in 1..Len(df) |-> box(shift(df, "coords", k), 2)]
           prev == [k \in 1..Len(df) |-> shift(df, "parsed_timestamp", k)]
       IN  df' = SetColumn(SetColumn(SetColumn(df, "prev_lat", lat),
                                     "prev_lon", lon), "prev_time", prev)
    /\ pc' = "time_diff"
    /\ UNCHANGED <<csv, remove_duplicates, ts_dtype, exc, rendered, call>>

\* line 106. The difference of two object columns is an object column, and
\* .dt on it raises AttributeError.
TimeDiff ==
    /\ pc = "time_diff"
    /\ IF ts_dtype = "object"
       THEN Raise("AttributeError", "time_diff_hours")
       ELSE /\ df' = SetColumn(df, "time_diff_hours",
                        [k \in 1..Len(df) |->
                            IF df[k].prev_time = None THEN None
                            ELSE <<total_seconds(df[k].parsed_timestamp,
                                                 df[k].prev_time)>>])
            /\ pc' = "distance"
            /\ UNCHANGED <<csv, remove_duplicates, ts_dtype, exc, rendered, call>>

\* lines 109-116. On an empty frame df.apply(..., axis=1) returns, depending
\* on the pandas release, an empty Series or a copy of the frame, and
\* assigning a frame to one column raises ValueError.
CalculateDistance ==
    /\ pc = "distance"
    /\ \/ /\ df' = SetColumn(df, "distance_km",
                       [k \in 1..Len(df) |-> calculate_distance(df[k])])
          /\ pc' = "avg_speed"
          /\ UNCHANGED <<csv, remove_duplicates, ts_dtype, exc, rendered, call>>
       \/ /\ df = <<>>
          /\ Raise("ValueError", "distance_km")

\* lines 119-127
CalculateAvgSpeed ==
    /\ pc = "avg_speed"
    /\ df' = SetColumn(df, "avg_speed_kmh",
                 [k \in 1..Len(df) |-> calculate_avg_speed(df[k])])
    /\ pc' = "return"
    /\ UNCHANGED <<csv, remove_duplicates, ts_dtype, exc, rendered, call>>

Dropped == {"prev_lat", "prev_lon", "prev_time", "time_diff_hours"}

\* lines 130-132
Return ==
    /\ pc = "return"
    /\ df' = [k \in 1..Len(df) |-> [c \in (DOMAIN df[k]) \ Dropped |-> df[k][c]]]
    /\ pc' = "create_map"
    /\ UNCHANGED <<csv, remove_duplicates, ts_dtype, exc, rendered, call>>

\* create_map(processed_df, args.output): lines 135-137, else the map.
CreateMap ==
    /\ pc = "create_map"
    /\ rendered' = IF df = <<>> THEN "No data available to plot." ELSE "map"
    /\ pc' = "done"
    /\ UNCHANGED <<csv, remove_duplicates, df, ts_dtype, exc, call>>

Next ==
    \/ ParseTimestamps
    \/ ExtractCoordinates
    \/ DropDuplicates
    \/ SortValues
    \/ AssignSequence
    \/ ShiftPrevious
    \/ TimeDiff
    \/ CalculateDistance
    \/ CalculateAvgSpeed
    \/ Return
    \/ CreateMap

Spec == Init /\ [][Next]_vars

(***************************************************************************)
(* Calls of the two parsers on their own: the strings handed to them are   *)
(* put together from the pieces below, so that every field of the shape    *)
(* occurs well-formed and malformed.                                       *)
(***************************************************************************)
\* month names
MonthPieces == {
    <<"J", "u", "n">>,
    <<"j", "u", "n">>,
    <<"J", "u", "n", "e">> }

\* days
DayPieces == {
    <<"2", "8">>,
    <<"8">>,
    <<"3", "1">> }

\* what separates the comma from the year
GapPieces == {
    <<" ">>,
    <<" ", " ">>,
    <<>> }

\* hour:minute:second
ClockPieces == {
    <<"1", "3", ":", "5", "9", ":", "3", "8">>,
    <<"3", ":", "9", ":", "8">>,
    <<"2", "4", ":", "0", "0", ":", "0", "0">>,
    <<"1", "3", ":", "5", "9", ":", "6", "0">> }

\* what follows the seconds
FractionPieces == {
    <<>>,
    <<".">>,
    <<".", "8">>,
    <<".", "8", "3">>,
    <<".", "8", "3", "1">>,
    <<".", "8", "3", "1", "1", "2", "3">>,
    <<".", "8", "3", "1", "1", "2", "3", "4">>,
    <<".", "8", "3", "1", " ">> }

TimestampStrings ==
    {m \o <<" ">> \o d \o <<",">> \o g \o <<"2", "0", "2", "4", " ", "@", " ">>
       \o c \o f :
        m \in MonthPieces, d \in DayPieces, g \in GapPieces,
        c \in ClockPieces, f \in FractionPieces}
    \cup {TsBad, NaN, <<>>}

\* what precedes the parenthesis
PrefixPieces == {
    <<"P", "O", "I", "N", "T", " ">>,
    <<"P", "O", "I", "N", "T">>,
    <<"p", "o", "i", "n", "t", " ">>,
    <<"P", "O", "I", "N", "T", "\t">>,
    <<" ", "P", "O", "I", "N", "T", " ">> }

\* first number
FirstNumberPieces == {
    <<"-", "1", "2", "2", ".", "4", "1", "9", "4">>,
    <<"3", "7", ".", "7", "7", "4", "9">>,
    <<"1", ".", "2", ".", "3">>,
    <<"-">>,
    <<"+", "1">>,
    <<".", "5">> }

\* what separates the numbers
SeparatorPieces == {
    <<" ">>,
    <<",">>,
    <<" ", " ">> }

\* second number
SecondNumberPieces == {
    <<"3", "7", ".", "7", "7", "4", "9">>,
    <<"-", "1", "2", "2", ".", "4", "1", "9", "4">>,
    <<"2", ".">>,
    <<"1", "-", "2">> }

\* what follows the second number
SuffixPieces == {
    <<")">>,
    <<")", " ", "t", "r", "a", "i", "l", "i", "n", "g">>,
    <<>>,
    <<" ", ")">> }

PositionStrings ==
    {p \o <<"(">> \o x \o s \o y \o e :
        p \in PrefixPieces, x \in FirstNumberPieces, s \in SeparatorPieces,
        y \in SecondNumberPieces, e \in SuffixPieces}
    \cup {NaN, <<>>}

InitParser ==
    /\ csv = <<>>
    /\ remove_duplicates = FALSE
    /\ df = <<>>
    /\ ts_dtype = "none"
    /\ pc = "idle"
    /\ exc = None
    /\ rendered = "nothing"
    /\ call = None

CallParseTimestamp ==
    /\ pc = "idle"
    /\ \E s \in TimestampStrings :
           call' = <<"parse_timestamp", s, parse_timestamp(s)>>
    /\ pc' = "called"
    /\ UNCHANGED <<csv, remove_duplicates, df, ts_dtype, exc, rendered>>

CallExtractCoordinates ==
    /\ pc = "idle"
    /\ \E s \in PositionStrings :
           call' = <<"extract_coordinates", s, extract_coordinates(s)>>
    /\ pc' = "called"
    /\ UNCHANGED <<csv, remove_duplicates, df, ts_dtype, exc, rendered>>

NextParser ==
    \/ CallParseTimestamp
    \/ CallExtractCoordinates

ParserSpec == InitParser /\ [][NextParser]_vars

(***************************************************************************)
(* Shapes of the input strings, stated on the tokens of a string: a token  *)
(* is a longest run of number characters, of letters or of whitespace, or  *)
(* one other character.                                                    *)
(***************************************************************************)
DigitSet == {DigitChars[k] : k \in 1..10}

IsLetter(c) == \E k \in 1..26 : UpperChars[k] = c \/ LowerChars[k] = c

CharClass(c, num) ==
    IF c \in num THEN "number"
    ELSE IF IsSpace(c) THEN "space"
    ELSE IF IsLetter(c) THEN "word"
    ELSE "other"

RECURSIVE RunEnd(_, _, _, _)
RunEnd(s, i, cls, num) ==
    IF i <= Len(s) /\ CharClass(s[i], num) = cls
    THEN RunEnd(s, i + 1, cls, num)
    ELSE i

RECURSIVE Tokens(_, _, _)
Tokens(s, i, num) ==
    IF i > Len(s) THEN <<>>
    ELSE LET cls == CharClass(s[i], num)
             j == IF cls = "other" THEN i + 1 ELSE RunEnd(s, i + 1, cls, num)
         IN  <<SubSeq(s, i, j - 1)>> \o Tokens(s, j, num)

IsSpaces(t) == t # <<>> /\ \A i \in 1..Len(t) : IsSpace(t[i])

IsDigits(t, lens) == Len(t) \in lens /\ \A i \in 1..Len(t) : t[i] \in DigitSet

IsMonthAbbreviation(t) ==
    \E m \in 1..12 : [i \in 1..Len(t) |-> ToLower(t[i])] = MonthNames[m]

\* '<abbreviated month> <day>, <year> @ <hour>:<minute>:<second>.<fraction>'
\* with a fractional part whose number of digits is in fracLens.
TimestampShape(s, fracLens) ==
    LET t == Tokens(s, 1, DigitSet)
    IN  /\ Len(t) = 16
        /\ IsMonthAbbreviation(t[1])
        /\ IsSpaces(t[2])
        /\ IsDigits(t[3], {1, 2})
        /\ t[4] = <<",">>
        /\ IsSpaces(t[5])
        /\ IsDigits(t[6], {4})
        /\ IsSpaces(t[7])
        /\ t[8] = <<"@">>
        /\ IsSpaces(t[9])
        /\ IsDigits(t[10], {1, 2})
        /\ t[11] = <<":">>
        /\ IsDigits(t[12], {1, 2})
        /\ t[13] = <<":">>
        /\ IsDigits(t[14], {1, 2})
        /\ t[15] = <<".">>
        /\ IsDigits(t[16], fracLens)

\* A signed decimal number: an optional "-", digits, at most one ".".
IsSignedDecimal(t) ==
    LET u == IF t # <<>> /\ t[1] = "-" THEN Tail(t) ELSE t
    IN  /\ \A i \in 1..Len(u) : u[i] \in DigitSet \cup {"."}
        /\ Cardinality({i \in 1..Len(u) : u[i] = "."}) <= 1
        /\ \E i \in 1..Len(u) : u[i] \in DigitSet

\* The tokens of s that are no whitespace.
PointTokens(s) ==
    SelectSeq(Tokens(s, 1, DigitSet \cup {"-", "."}), LAMBDA t : ~IsSpaces(t))

\* 'POINT (<lon> <lat>)': the word POINT, the parenthesis, two signed
\* decimal numbers separated by whitespace, the closing parenthesis, and
\* nothing before or after.
PointShape(s) ==
    LET t == PointTokens(s)
    IN  /\ s # <<>>
        /\ ~IsSpace(s[1])
        /\ ~IsSpace(s[Len(s)])
        /\ Len(t) = 5
        /\ t[1] = PointLiteral
        /\ t[2] = <<"(">>
        /\ IsSignedDecimal(t[3])
        /\ IsSignedDecimal(t[4])
        /\ t[5] = <<")">>

(***************************************************************************)
(* Properties of the parsers (ParserSpec).                                 *)
(***************************************************************************)
Called(fn) == call # None /\ call[1] = fn

\* C6 as stated: parse_timestamp returns an instant only for strings whose
\* fractional part has exactly 3 digits; every other string, among them
\* '2024-06-28 13:59:38', gives the parse-failure value None.
C6_OnlyThreeFractionDigitsParse ==
    (Called("parse_timestamp") /\ IsStr(call[2]))
        => /\ ~TimestampShape(call[2], {3}) => call[3] = None
           /\ call[2] = TsBad => call[3] = None

\* C6 amended: parse_timestamp returns an instant only for strings of the
\* shape with a fractional part of 1 to 6 digits; every other string, among
\* them '2024-06-28 13:59:38', gives the parse-failure value None.
C6_OnlyOneToSixFractionDigitsParse ==
    (Called("parse_timestamp") /\ IsStr(call[2]))
        => /\ ~TimestampShape(call[2], 1..6) => call[3] = None
           /\ call[2] = TsBad => call[3] = None

\* A string whose fractional part has 6 digits was parsed to an instant.
C6_Witness ==
    /\ Called("parse_timestamp")
    /\ IsStr(call[2])
    /\ call[3] # None
    /\ TimestampShape(call[2], {6})

\* C7: extract_coordinates returns the parse-failure value None for every
\* string that is not of the shape 'POINT (<lon> <lat>)', extra text after
\* the closing parenthesis included.
C7_OnlyPointShapeParses ==
    (Called("extract_coordinates") /\ IsStr(call[2]) /\ ~PointShape(call[2]))
        => call[3] = None

\* C8: for a well-formed 'POINT (x y)' extract_coordinates returns
\* (latitude, longitude) = (y, x); 'POINT (-122.4194 37.7749)' gives
\* latitude 37.7749 and longitude -122.4194.
C8_LatitudeIsSecondNumber ==
    (Called("extract_coordinates") /\ IsStr(call[2]) /\ PointShape(call[2]))
        => /\ call[3] # None
           /\ call[3][1] = float(PointTokens(call[2])[4])
           /\ call[3][2] = float(PointTokens(call[2])[3])
           /\ call[2] = PosA => call[3] = <<377749, -1224194>>

\* A well-formed string with two different numbers was parsed.
C8_Witness ==
    /\ Called("extract_coordinates")
    /\ IsStr(call[2])
    /\ PointShape(call[2])
    /\ call[3] # None
    /\ call[3][1] # call[3][2]

(***************************************************************************)
(* Properties of the trajectory returned by process_data (Spec).           *)
(***************************************************************************)
\* process_data has returned its frame.
Returned == pc \in {"create_map", "done"}

\* The run is over.
Terminated == pc \in {"done", "raised"}

\* Both the timestamp and the position of a row of the input parse.
Valid(row) ==
    /\ IsStr(row.timestamp)
    /\ parse_timestamp(row.timestamp) # None
    /\ extract_coordinates(row.position) # None

\* The rows of the input that parse, in input order.
Survivors == SelectSeq(csv, Valid)

\* The input columns of a row of the trajectory.
Input(row) ==
    [timestamp |-> row.timestamp, position |-> row.position,
     country_code |-> row.country_code, route_id |-> row.route_id]

Count(seq, x) == Cardinality({i \in 1..Len(seq) : seq[i] = x})

\* No cell of the column timestamp is empty.
AllTimestampsStr == \A i \in 1..Len(csv) : IsStr(csv[i].timestamp)

\* The point that precedes row in sequence order.
Predecessor(row) ==
    CHOOSE p \in {df[k] : k \in 1..Len(df)} : p.sequence = row.sequence - 1

\* The number of points that survive parsing and, if enabled, deduplication.
ExpectedCount ==
    IF remove_duplicates
    THEN Cardinality({Survivors[i] : i \in 1..Len(Survivors)})
    ELSE Len(Survivors)

\* C1: the sequence numbers of the returned trajectory are exactly 1..N,
\* N the number of rows that survived parsing (and deduplication), and the
\* row at 0-based position k has sequence k + 1.
C1_SequenceContiguous ==
    Returned => /\ Len(df) = ExpectedCount
                /\ \A k \in 1..Len(df) : df[k].sequence = k

\* A trajectory of at least two points was returned for an input of which
\* some row was dropped.
C1_Witness == Returned /\ Len(df) >= 2 /\ Len(df) < Len(csv)

\* Stable sort by parsed timestamp: a row goes behind every row whose
\* timestamp is not later.
RECURSIVE StableInsert(_, _)
StableInsert(sorted, row) ==
    IF sorted = <<>> THEN <<row>>
    ELSE IF dt_lt(parse_timestamp(row.timestamp),
                  parse_timestamp(sorted[Len(sorted)].timestamp))
    THEN Append(StableInsert(SubSeq(sorted, 1, Len(sorted) - 1), row),
                sorted[Len(sorted)])
    ELSE Append(sorted, row)

RECURSIVE StableSorted(_)
StableSorted(rows) ==
    IF rows = <<>> THEN <<>>
    ELSE StableInsert(StableSorted(SubSeq(rows, 1, Len(rows) - 1)), rows[Len(rows)])

\* C2: the returned trajectory is the stable sort of the surviving points
\* by timestamp: non-decreasing timestamps, and points with equal
\* timestamps in their input order.
C2_StableSort ==
    Returned => [k \in 1..Len(df) |-> Input(df[k])] = StableSorted(Survivors)

\* C3: with remove_duplicates two rows identical in every field are returned
\* as exactly one point, without it both remain (inputs without an empty
\* timestamp cell).
C3_DuplicatesCollapse ==
    (Terminated /\ AllTimestampsStr)
        => \A i \in 1..Len(csv) :
               (Valid(csv[i]) /\ Count(csv, csv[i]) >= 2)
                   => /\ pc = "done"
                      /\ Count([k \in 1..Len(df) |-> Input(df[k])], csv[i])
                             = IF remove_duplicates THEN 1 ELSE Count(csv, csv[i])

\* C4: an input that leaves zero valid points (empty, or malformed rows
\* only) never raises: process_data returns an empty trajectory and
\* create_map reports that there is nothing to plot (inputs without an
\* empty timestamp cell).
C4_EmptyIsNotAnError ==
    (AllTimestampsStr /\ Survivors = <<>>)
        => /\ pc # "raised"
           /\ Returned => df = <<>>
           /\ pc = "done" => rendered = "No data available to plot."

\* C5: no failure raises past parse_timestamp or extract_coordinates, and
\* the returned trajectory holds every row whose timestamp and position
\* parse and no other row.
C5_MalformedRowsDropped ==
    /\ pc = "raised" => exc[2] \notin {"parse_timestamp", "extract_coordinates"}
    /\ Returned => \A i \in 1..Len(csv) :
                       Count([k \in 1..Len(df) |-> Input(df[k])], csv[i])
                           = Count(Survivors, csv[i])

\* The hundredths of km/h a text "<digits>.<2 digits> km/h" states, -1 for a
\* text of another form.
SpeedOfText(text) ==
    LET n == Len(text)
    IN  IF /\ n >= 9
           /\ SubSeq(text, n - 4, n) = <<" ", "k", "m", "/", "h">>
           /\ text[n - 7] = "."
           /\ \A i \in (1..(n - 8)) \cup {n - 6, n - 5} : text[i] \in DigitSet
        THEN Num(text, 1, n - 7) * 100 + Num(text, n - 6, n - 4)
        ELSE 0 - 1

\* C9: avg_speed_kmh is the sentinel exactly when the point has sequence 1
\* or the time elapsed since its predecessor is <= 0; otherwise it is
\* distance_km divided by the elapsed hours, with two decimals and the
\* unit: 10 km in 1 hour is "10.00 km/h".
C9_AverageSpeed ==
    Returned =>
        \A k \in 1..Len(df) :
            LET row == df[k]
                ms == total_seconds(row.parsed_timestamp,
                                    Predecessor(row).parsed_timestamp)
                h == SpeedOfText(row.avg_speed_kmh)
            IN  IF row.sequence = 1 \/ ms <= 0
                THEN row.avg_speed_kmh = NotApplicable
                ELSE /\ h >= 0
                     \* |h/100 - 3600 * m / ms| <= 1/200, for whole seconds
                     /\ ms % 1000 = 0
                     /\ LET s == ms \div 1000
                            d == h * s - 360 * row.distance_km
                        IN  2 * (IF d < 0 THEN 0 - d ELSE d) <= s
                     /\ (row.distance_km = 10000 /\ ms = 3600000)
                            => row.avg_speed_kmh =
                                <<"1", "0", ".", "0", "0", " ", "k", "m", "/", "h">>

\* A trajectory with a point at the instant of its predecessor and a point
\* 10 km and 1 hour after its predecessor.
C9_Witness ==
    /\ Returned
    /\ \E k \in 2..Len(df) : df[k].avg_speed_kmh = NotApplicable
    /\ \E k \in 2..Len(df) :
           df[k].avg_speed_kmh = <<"1", "0", ".", "0", "0", " ", "k", "m", "/", "h">>

\* C10: distance_km of the point with sequence 1 is 0.0, and of every other
\* point the haversine distance (Earth radius 6371.0 km) between it and the
\* point with the preceding sequence number.
C10_DistanceFromPredecessor ==
    Returned =>
        \A k \in 1..Len(df) :
            LET row == df[k]
            IN  IF row.sequence = 1 THEN row.distance_km = 0
                ELSE LET p == Predecessor(row)
                     IN  /\ row.distance_km =
                                haversine(p.coords[1], p.coords[2],
                                          row.coords[1], row.coords[2])
                         /\ (p.coords = <<377749, -1224194>>
                                /\ row.coords = <<377861, -1223065>>)
                                => row.distance_km = 10000

\* A trajectory of three points at three places.
C10_Witness ==
    /\ Returned
    /\ Len(df) = 3
    /\ df[2].distance_km > 0
    /\ df[3].distance_km > 0
    /\ df[2].distance_km # df[3].distance_km

=============================================================================
